---------------------------- MODULE Spec2Model ----------------------------
(***************************************************************************)
(* A model of sflux: the Flux query builder (client.py), the ROW column    *)
(* expressions and the value serializer (utils.py), and the line-protocol  *)
(* Measurement encoder (measurement.py).                                   *)
(*                                                                         *)
(* Text is modelled by TLA+ strings, built with \o exactly as the code      *)
(* builds it with f-strings and str.join.  Python values are tagged        *)
(* records (field t is the Python type).  Python integers are unbounded,   *)
(* so they are sequences of base-1000 limbs; Python floats are IEEE-754    *)
(* doubles, kept as exact dyadic rationals num / 2^d and rounded to 53     *)
(* significant bits wherever the interpreter rounds.                       *)
(***************************************************************************)
EXTENDS Integers, Sequences, FiniteSets, TLC

VARIABLES
    expr,       \* utils.py: the ROW / _RowOp object the caller holds
    res,        \* utils.py: the last call on it, its operands and its result
    nops,       \* utils.py: how many arithmetic operations built expr
    meas,       \* measurement.py: the Measurement object (name, fields, _tags, _time)
    enc,        \* measurement.py: the last call on it and its result or exception
    imports,    \* client.py: the heap of _imports list objects (lists are shared by reference)
    queries,    \* client.py: the _Query objects built so far (_components, ref to _imports list)
    chain,      \* per _Query object: its bucket, its parent and the calls of its chain
    call,       \* client.py: the last call: method, argument, exception
    sent,       \* client.py: the calls Client.write made on the external write API, in order
    wcall       \* client.py: the last call of Client.write: its arguments and its exception

vars == <<expr, res, nops, meas, enc, imports, queries, chain, call, sent, wcall>>
rowVars == <<expr, res, nops>>
measVars == <<meas, enc>>
queryVars == <<imports, queries, chain, call>>
writeVars == <<sent, wcall>>

-----------------------------------------------------------------------------
(* Generic helpers on sequences and text.                                  *)

RECURSIVE Cat(_)
\* ''.join(parts)
Cat(parts) == IF parts = <<>> THEN "" ELSE Head(parts) \o Cat(Tail(parts))

RECURSIVE Join(_, _)
\* sep.join(parts)
Join(sep, parts) ==
    IF parts = <<>> THEN ""
    ELSE IF Len(parts) = 1 THEN parts[1]
    ELSE parts[1] \o sep \o Join(sep, Tail(parts))

Ok(v) == [err |-> "", val |-> v]
Raise(e) == [err |-> e, val |-> ""]

-----------------------------------------------------------------------------
(* Python int: unbounded.  A natural number is a sequence of limbs in      *)
(* 0..999, most significant first, with no leading zero limb (zero is <<0>>).*)

\* three decimal digits per limb
Base == 10 * 10 * 10

RECURSIVE BigNorm(_)
BigNorm(a) ==
    IF Len(a) > 1 /\ a[1] = 0 THEN BigNorm(Tail(a))
    ELSE IF a = <<>> THEN <<0>> ELSE a

RECURSIVE BigOfNat(_)
BigOfNat(n) == IF n < Base THEN <<n>> ELSE BigOfNat(n \div Base) \o <<n % Base>>

RECURSIVE LexCmp(_, _)
LexCmp(a, b) ==
    IF a = <<>> THEN 0
    ELSE IF a[1] < b[1] THEN -1
    ELSE IF a[1] > b[1] THEN 1
    ELSE LexCmp(Tail(a), Tail(b))

\* -1, 0, 1 as a < b, a = b, a > b
BigCmp(a, b) ==
    IF Len(a) < Len(b) THEN -1
    ELSE IF Len(a) > Len(b) THEN 1
    ELSE LexCmp(a, b)

RECURSIVE MulCarry(_, _, _)
\* limbs a (least significant LAST) times k plus carry
MulCarry(a, k, carry) ==
    IF a = <<>> THEN (IF carry = 0 THEN <<>> ELSE BigOfNat(carry))
    ELSE LET n == Len(a)
             p == a[n] * k + carry
         IN MulCarry(SubSeq(a, 1, n - 1), k, p \div Base) \o <<p % Base>>

\* a * k for a small k (k < 2^20)
BigMulSmall(a, k) == BigNorm(MulCarry(a, k, 0))

\* a + 1
BigSucc(a) == BigNorm(MulCarry(a, 1, 1))

RECURSIVE DivStep(_, _, _, _)
DivStep(a, d, rem, quot) ==
    IF a = <<>> THEN [q |-> BigNorm(quot), r |-> rem]
    ELSE LET cur == rem * Base + a[1]
         IN DivStep(Tail(a), d, cur % d, quot \o <<cur \div d>>)

\* [q, r] with a = q * d + r for a small d (d < 2^20)
BigDivSmall(a, d) == DivStep(a, d, 0, <<>>)

\* a * 1000^k
BigShift(a, k) == IF a = <<0>> THEN a ELSE a \o [i \in 1..k |-> 0]

\* decimal text of a natural number: every limb after the first as three digits
BigStr(a) ==
    LET Pad3(n) == IF n < 10 THEN "00" \o ToString(n)
                   ELSE IF n < 100 THEN "0" \o ToString(n) ELSE ToString(n)
    IN ToString(a[1]) \o Cat([i \in 1..(Len(a) - 1) |-> Pad3(a[i + 1])])

RECURSIVE AddCarry(_, _, _)
\* limbs a + b + carry, both least significant LAST
AddCarry(a, b, carry) ==
    IF a = <<>> /\ b = <<>> THEN (IF carry = 0 THEN <<>> ELSE <<carry>>)
    ELSE LET x == IF a = <<>> THEN 0 ELSE a[Len(a)]
             y == IF b = <<>> THEN 0 ELSE b[Len(b)]
             ra == IF a = <<>> THEN a ELSE SubSeq(a, 1, Len(a) - 1)
             rb == IF b = <<>> THEN b ELSE SubSeq(b, 1, Len(b) - 1)
             t == x + y + carry
         IN AddCarry(ra, rb, t \div Base) \o <<t % Base>>

BigAdd(a, b) == BigNorm(AddCarry(a, b, 0))

RECURSIVE BigMul(_, _)
\* a * b, schoolbook: a * (b' * 1000 + last) = (a * b') * 1000 + a * last
BigMul(a, b) ==
    IF Len(b) = 1 THEN BigMulSmall(a, b[1])
    ELSE BigAdd(BigShift(BigMul(a, SubSeq(b, 1, Len(b) - 1)), 1),
                BigMulSmall(a, b[Len(b)]))

-----------------------------------------------------------------------------
(* IEEE-754 double arithmetic, as CPython's float uses it.  A finite double*)
(* is [neg, num, d]: the exact value (-1)^neg * num / 2^d, where num has at *)
(* most 53 significant bits.                                               *)

RECURSIVE HalveUntil(_, _, _, _, _)
\* Divide q by two repeatedly, s counting the halvings, keeping the
\* last bit shifted out (guard) and whether any earlier one was set (sticky),
\* then round to nearest, ties to even.  stop = 0: until q < 2^53 (round to
\* 53 bits); stop = n > 0: exactly n halvings (round to an integer).
HalveUntil(q, s, guard, sticky, stop) ==
    LET TwoTo53 == <<9, 7, 199, 254, 740, 992>>
        odd == q[Len(q)] % 2 = 1
    IN IF (stop = 0 /\ BigCmp(q, TwoTo53) < 0) \/ (stop > 0 /\ s = stop)
       THEN [q |-> IF guard /\ (sticky \/ odd) THEN BigSucc(q) ELSE q, s |-> s]
       ELSE HalveUntil(BigDivSmall(q, 2).q, s + 1, odd, sticky \/ guard, stop)

RECURSIVE BigTimesPow2(_, _)
BigTimesPow2(a, n) == IF n = 0 THEN a ELSE BigTimesPow2(BigMulSmall(a, 2), n - 1)

\* the double nearest to the positive rational num / 2^d (round to nearest even)
RoundToDouble(neg, num, d) ==
    LET h == HalveUntil(num, 0, FALSE, FALSE, 0)
    IN IF h.s >= d THEN [neg |-> neg, num |-> BigTimesPow2(h.q, h.s - d), d |-> 0]
       ELSE [neg |-> neg, num |-> h.q, d |-> d - h.s]

\* x * y in double arithmetic: the exact product, correctly rounded
DoubleMul(x, y) == RoundToDouble(x.neg # y.neg, BigMul(x.num, y.num), x.d + y.d)

\* -1, 0, 1: exact comparison of two finite numbers num / 2^d
DoubleCmp(x, y) ==
    LET xz == x.num = <<0>>
        yz == y.num = <<0>>
        mag == BigCmp(BigTimesPow2(x.num, y.d), BigTimesPow2(y.num, x.d))
    IN IF xz /\ yz THEN 0
       ELSE IF x.neg /\ ~y.neg THEN -1
       ELSE IF ~x.neg /\ y.neg THEN 1
       ELSE IF x.neg THEN -mag ELSE mag


-----------------------------------------------------------------------------
(* Python values.  Field t names the type:                                 *)
(*   none | bool (b) | int (neg, mag) | float (k, dbl, repr) | str (s) |   *)
(*   list, tuple, set (items) | dict (pairs) | datetime (naive, tz) |     *)
(*   row (column) | rowop (column)                                         *)
(* A str is a sequence of pieces, each either one character that JSON      *)
(* escapes or a run of characters it does not.  A float carries the text   *)
(* repr() gives it (the literal the caller wrote, in shortest form).       *)

None == [t |-> "none"]
PyBool(b) == [t |-> "bool", b |-> b]
PyInt(n) == [t |-> "int", neg |-> n < 0, mag |-> BigOfNat(IF n < 0 THEN -n ELSE n)]
PyIntBig(neg, limbs) == [t |-> "int", neg |-> neg, mag |-> limbs]
PyFloat(repr, neg, num, d) ==
    [t |-> "float", k |-> "fin", dbl |-> [neg |-> neg, num |-> num, d |-> d], repr |-> repr]
NaN == [t |-> "float", k |-> "nan", dbl |-> [neg |-> FALSE, num |-> <<0>>, d |-> 0], repr |-> "nan"]
Inf == [t |-> "float", k |-> "inf", dbl |-> [neg |-> FALSE, num |-> <<0>>, d |-> 0], repr |-> "inf"]
NegInf == [t |-> "float", k |-> "ninf", dbl |-> [neg |-> TRUE, num |-> <<0>>, d |-> 0], repr |-> "-inf"]
PyStr(s) == [t |-> "str", s |-> <<s>>]
StrOf(pieces) == [t |-> "str", s |-> pieces]
List(items) == [t |-> "list", items |-> items]
Tuple(items) == [t |-> "tuple", items |-> items]
SetOf(items) == [t |-> "set", items |-> items]
DateTime(naive, tz) == [t |-> "datetime", naive |-> naive, tz |-> tz]

\* isinstance(v, str), isinstance(v, int) (bool is a subclass of int), ...
IsStr(v) == v.t = "str"
IsInt(v) == v.t \in {"int", "bool"}
IsFloat(v) == v.t = "float"
IsList(v) == v.t = "list"

\* str(int)
IntStr(v) == (IF v.neg /\ v.mag # <<0>> THEN "-" ELSE "") \o BigStr(v.mag)

\* ROW.__repr__ (utils.py:37) and _RowOp.__repr__ (utils.py:68)
RowRepr(self) ==
    IF self.t = "rowop" THEN self.column
    ELSE "r[\"" \o self.column \o "\"]"

\* format(v, ''): what an f-string replacement field {v} renders
Format(v) ==
    CASE v.t = "none" -> "None"
      [] v.t = "bool" -> (IF v.b THEN "True" ELSE "False")
      [] v.t = "int" -> IntStr(v)
      [] v.t = "float" -> v.repr
      [] v.t = "str" -> Cat(v.s)
      [] v.t \in {"row", "rowop"} -> RowRepr(v)

\* json.dumps' escape of one piece of a str (ensure_ascii=True)
JsonEscape(piece) ==
    CASE piece = "\"" -> "\\\""
      [] piece = "\\" -> "\\\\"
      [] piece = "\n" -> "\\n"
      [] piece = "\t" -> "\\t"
      [] OTHER -> piece

RECURSIVE JsonDumps(_)
\* json.dumps(v) with the default separators (', ', ': '): Ok(text), or
\* Raise("TypeError") for a type the encoder does not know
JsonDumps(v) ==
    CASE v.t = "none" -> Ok("null")
      [] v.t = "bool" -> Ok(IF v.b THEN "true" ELSE "false")
      [] v.t = "int" -> Ok(IntStr(v))
      [] v.t = "float" ->
            Ok(CASE v.k = "nan" -> "NaN" [] v.k = "inf" -> "Infinity"
                 [] v.k = "ninf" -> "-Infinity" [] OTHER -> v.repr)
      [] v.t = "str" -> Ok("\"" \o Cat([i \in 1..Len(v.s) |-> JsonEscape(v.s[i])]) \o "\"")
      [] v.t \in {"list", "tuple"} ->
            LET parts == [i \in 1..Len(v.items) |-> JsonDumps(v.items[i])]
            IN IF \E i \in 1..Len(parts) : parts[i].err # "" THEN Raise("TypeError")
               ELSE Ok("[" \o Join(", ", [i \in 1..Len(parts) |-> parts[i].val]) \o "]")
      [] OTHER -> Raise("TypeError")

-----------------------------------------------------------------------------
(* utils.py                                                                *)

\* utils.py:86 parse_to_string
parse_to_string(other) == JsonDumps(other)

ROW(column) == [t |-> "row", column |-> column]
_RowOp(column) == [t |-> "rowop", column |-> column]

\* the shared shape of the six comparison methods: f'{self} <op> {parse_to_string(other)}'
Comparison(self, op, other) ==
    LET p == parse_to_string(other)
    IN IF p.err # "" THEN p ELSE Ok(RowRepr(self) \o " " \o op \o " " \o p.val)

__eq__(self, other) == Comparison(self, "==", other)
__ne__(self, other) == Comparison(self, "!=", other)
__ge__(self, other) == Comparison(self, ">=", other)
__gt__(self, other) == Comparison(self, ">", other)
__le__(self, other) == Comparison(self, "<=", other)
__lt__(self, other) == Comparison(self, "<", other)

in_(self, iterable) ==
    LET p == parse_to_string(iterable)
    IN IF p.err # "" THEN p
       ELSE Ok("contains(value: " \o RowRepr(self) \o ", set: " \o p.val \o ")")

not_in_(self, iterable) ==
    LET p == parse_to_string(iterable)
    IN IF p.err # "" THEN p
       ELSE Ok("not contains(value: " \o RowRepr(self) \o ", set: " \o p.val \o ")")

exists(self) == Ok("exists " \o RowRepr(self))

__add__(self, other) == _RowOp("(" \o RowRepr(self) \o " + " \o Format(other) \o ")")
__sub__(self, other) == _RowOp("(" \o RowRepr(self) \o " - " \o Format(other) \o ")")
__mul__(self, other) == _RowOp(RowRepr(self) \o " * " \o Format(other))
__truediv__(self, other) == _RowOp(RowRepr(self) \o " / " \o Format(other))
\* the reflected methods: Python calls x.__rsub__(5) for 5 - x
__radd__(self, other) == _RowOp("(" \o RowRepr(self) \o " + " \o Format(other) \o ")")
__rsub__(self, other) == _RowOp("(" \o RowRepr(self) \o " - " \o Format(other) \o ")")
__rmul__(self, other) == _RowOp(RowRepr(self) \o " * " \o Format(other))
__rtruediv__(self, other) == _RowOp(RowRepr(self) \o " / " \o Format(other))

_or(args) == "(" \o Join(" or ", args) \o ")"
_and(args) == "(" \o Join(" and ", args) \o ")"


-----------------------------------------------------------------------------
(* The callers of utils.py: one action per method of ROW, per helper.      *)

\* how many arithmetic operations one expression is built from, at most
MaxOps == 2

\* the arguments the callers pass: column names; right operands of the
\* comparison methods; arguments of in_ and not_in_; the other operand of an
\* arithmetic operator (a literal or another expression); a left operand whose
\* own __sub__ etc. returns NotImplemented, so that Python calls the reflected
\* method of the ROW on the right; condition texts as the comparisons return them
RowArgs ==
    [column |-> {"a", "x"},
     operand |-> {PyInt(5), PyStr("cpu"), StrOf(<<"a", "\"", "b">>), PyBool(TRUE), None,
                  List(<<PyStr("a"), PyStr("b")>>), ROW("b")},
     iterable |-> {List(<<PyStr("a"), PyStr("b")>>), Tuple(<<PyInt(1), PyInt(2)>>), List(<<>>),
                   None, SetOf(<<PyInt(1)>>)},
     arith |-> {PyInt(5), ROW("b")},
     literal |-> {PyInt(5)},
     condition |-> {__eq__(ROW("x"), PyInt(5)).val, exists(ROW("z")).val}]

Called(op, self, other, r) ==
    [op |-> op, self |-> self, other |-> other, err |-> r.err, text |-> r.val]

\* ROW(column)
NewROW ==
    /\ \E c \in RowArgs.column :
          /\ expr' = ROW(c)
          /\ res' = Called("ROW", expr', None, Ok(""))
    /\ nops' = 0
    /\ UNCHANGED <<measVars, queryVars, writeVars>>

\* the comparison and membership methods return text and leave the expression alone
Eq ==
    \E other \in RowArgs.operand :
        /\ res' = Called("__eq__", expr, other, __eq__(expr, other))
        /\ UNCHANGED <<expr, nops, measVars, queryVars, writeVars>>
Ne ==
    \E other \in RowArgs.operand :
        /\ res' = Called("__ne__", expr, other, __ne__(expr, other))
        /\ UNCHANGED <<expr, nops, measVars, queryVars, writeVars>>
Ge ==
    \E other \in RowArgs.operand :
        /\ res' = Called("__ge__", expr, other, __ge__(expr, other))
        /\ UNCHANGED <<expr, nops, measVars, queryVars, writeVars>>
Gt ==
    \E other \in RowArgs.operand :
        /\ res' = Called("__gt__", expr, other, __gt__(expr, other))
        /\ UNCHANGED <<expr, nops, measVars, queryVars, writeVars>>
Le ==
    \E other \in RowArgs.operand :
        /\ res' = Called("__le__", expr, other, __le__(expr, other))
        /\ UNCHANGED <<expr, nops, measVars, queryVars, writeVars>>
Lt ==
    \E other \in RowArgs.operand :
        /\ res' = Called("__lt__", expr, other, __lt__(expr, other))
        /\ UNCHANGED <<expr, nops, measVars, queryVars, writeVars>>
In ==
    \E it \in RowArgs.iterable :
        /\ res' = Called("in_", expr, it, in_(expr, it))
        /\ UNCHANGED <<expr, nops, measVars, queryVars, writeVars>>
NotIn ==
    \E it \in RowArgs.iterable :
        /\ res' = Called("not_in_", expr, it, not_in_(expr, it))
        /\ UNCHANGED <<expr, nops, measVars, queryVars, writeVars>>
Exists ==
    /\ res' = Called("exists", expr, None, exists(expr))
    /\ UNCHANGED <<expr, nops, measVars, queryVars, writeVars>>

\* the arithmetic methods return a _RowOp, which the caller goes on with:
\* expr + other, expr - other, expr * other, expr / other
Add ==
    \E other \in RowArgs.arith :
        /\ nops < MaxOps
        /\ expr' = __add__(expr, other)
        /\ nops' = nops + 1
        /\ res' = Called("__add__", expr, other, Ok(RowRepr(expr')))
        /\ UNCHANGED <<measVars, queryVars, writeVars>>
Sub ==
    \E other \in RowArgs.arith :
        /\ nops < MaxOps
        /\ expr' = __sub__(expr, other)
        /\ nops' = nops + 1
        /\ res' = Called("__sub__", expr, other, Ok(RowRepr(expr')))
        /\ UNCHANGED <<measVars, queryVars, writeVars>>
Mul ==
    \E other \in RowArgs.arith :
        /\ nops < MaxOps
        /\ expr' = __mul__(expr, other)
        /\ nops' = nops + 1
        /\ res' = Called("__mul__", expr, other, Ok(RowRepr(expr')))
        /\ UNCHANGED <<measVars, queryVars, writeVars>>
TrueDiv ==
    \E other \in RowArgs.arith :
        /\ nops < MaxOps
        /\ expr' = __truediv__(expr, other)
        /\ nops' = nops + 1
        /\ res' = Called("__truediv__", expr, other, Ok(RowRepr(expr')))
        /\ UNCHANGED <<measVars, queryVars, writeVars>>
\* other - expr, other / expr, other + expr, other * expr
RSub ==
    \E other \in RowArgs.literal :
        /\ nops < MaxOps
        /\ expr' = __rsub__(expr, other)
        /\ nops' = nops + 1
        /\ res' = Called("__rsub__", expr, other, Ok(RowRepr(expr')))
        /\ UNCHANGED <<measVars, queryVars, writeVars>>
RTrueDiv ==
    \E other \in RowArgs.literal :
        /\ nops < MaxOps
        /\ expr' = __rtruediv__(expr, other)
        /\ nops' = nops + 1
        /\ res' = Called("__rtruediv__", expr, other, Ok(RowRepr(expr')))
        /\ UNCHANGED <<measVars, queryVars, writeVars>>
RAdd ==
    \E other \in RowArgs.literal :
        /\ nops < MaxOps
        /\ expr' = __radd__(expr, other)
        /\ nops' = nops + 1
        /\ res' = Called("__radd__", expr, other, Ok(RowRepr(expr')))
        /\ UNCHANGED <<measVars, queryVars, writeVars>>
RMul ==
    \E other \in RowArgs.literal :
        /\ nops < MaxOps
        /\ expr' = __rmul__(expr, other)
        /\ nops' = nops + 1
        /\ res' = Called("__rmul__", expr, other, Ok(RowRepr(expr')))
        /\ UNCHANGED <<measVars, queryVars, writeVars>>

\* _or(c1, c2, ...) and _and(c1, c2, ...)
Or ==
    \E c1 \in RowArgs.condition, c2 \in RowArgs.condition :
        /\ res' = Called("_or", expr, None, Ok(_or(<<c1, c2>>)))
        /\ UNCHANGED <<expr, nops, measVars, queryVars, writeVars>>
And ==
    \E c1 \in RowArgs.condition, c2 \in RowArgs.condition :
        /\ res' = Called("_and", expr, None, Ok(_and(<<c1, c2>>)))
        /\ UNCHANGED <<expr, nops, measVars, queryVars, writeVars>>

\* parse_to_string(v), called directly
ParseToString ==
    \E v \in RowArgs.operand \cup RowArgs.iterable :
        /\ res' = Called("parse_to_string", expr, v, parse_to_string(v))
        /\ UNCHANGED <<expr, nops, measVars, queryVars, writeVars>>

-----------------------------------------------------------------------------
(* Python arithmetic on int and float, as measurement.py uses it.          *)

\* the exact value of a finite number as neg, num / 2^d (True is 1, False is 0)
NumOf(v) ==
    CASE v.t = "int" -> [neg |-> v.neg, num |-> v.mag, d |-> 0]
      [] v.t = "bool" -> [neg |-> FALSE, num |-> (IF v.b THEN <<1>> ELSE <<0>>), d |-> 0]
      [] v.t = "float" -> v.dbl

\* a > b for an int, bool or float a and a finite b: Python compares an int
\* with a float exactly; every comparison with nan is False
PyGt(a, b) ==
    IF a.t = "float" /\ a.k # "fin" THEN a.k = "inf"
    ELSE DoubleCmp(NumOf(a), NumOf(b)) > 0

\* float(v) for an int or bool v: the nearest double
ToDouble(v) == IF v.t = "float" THEN v.dbl ELSE RoundToDouble(NumOf(v).neg, NumOf(v).num, 0)

\* a * b for a positive multiplier b: int * int is exact; with a float on
\* either side both become doubles and the product is rounded; inf * b is inf.
\* The repr of the product is left empty: it is only ever rounded.
PyMul(a, b) ==
    IF a.t # "float" /\ b.t # "float"
    THEN LET x == NumOf(a)
         IN PyIntBig(x.neg, BigMul(x.num, NumOf(b).num))
    ELSE IF a.t = "float" /\ a.k # "fin" THEN a
    ELSE [t |-> "float", k |-> "fin", dbl |-> DoubleMul(ToDouble(a), ToDouble(b)), repr |-> ""]

\* round(v): an int is itself; a finite float rounds half to even; inf raises
\* OverflowError and nan ValueError
PyRound(v) ==
    IF v.t # "float" THEN Ok(PyIntBig(NumOf(v).neg, NumOf(v).num))
    ELSE IF v.k = "nan" THEN Raise("ValueError")
    ELSE IF v.k # "fin" THEN Raise("OverflowError")
    ELSE IF v.dbl.d = 0 THEN Ok(PyIntBig(v.dbl.neg, v.dbl.num))
    ELSE Ok(PyIntBig(v.dbl.neg, HalveUntil(v.dbl.num, 0, FALSE, FALSE, v.dbl.d).q))

\* the float literals of _parse_time
F1e18 == PyFloat("1e+18", FALSE, BigShift(<<1>>, 6), 0)
F1e15 == PyFloat("1000000000000000.0", FALSE, BigShift(<<1>>, 5), 0)
F1e12 == PyFloat("1000000000000.0", FALSE, BigShift(<<1>>, 4), 0)
F1e9 == PyFloat("1000000000.0", FALSE, BigShift(<<1>>, 3), 0)
F1e6 == PyFloat("1000000.0", FALSE, BigShift(<<1>>, 2), 0)
F1e3 == PyFloat("1000.0", FALSE, BigShift(<<1>>, 1), 0)

-----------------------------------------------------------------------------
(* measurement.py: class Measurement.  The object is                       *)
(*   [name, fields, _tags, _time]; fields and a tags dict are sequences of *)
(*   <<key, value>> in insertion order (a dict keeps it); _tags and _time  *)
(*   are None until set.                                                   *)

Dict(pairs) == [t |-> "dict", pairs |-> pairs]

\* Measurement.__init__ (measurement.py:5)
Measurement(name, fields) ==
    [name |-> name, fields |-> fields, _tags |-> None, _time |-> None]

\* Measurement.tags (measurement.py:18): returns self with _tags set
tags(self, kw) == [self EXCEPT !._tags = Dict(kw)]

\* Measurement.time (measurement.py:22): Ok(self with _time set), or ValueError
time(self, _time) ==
    IF ~(_time.t = "none" \/ IsFloat(_time) \/ IsInt(_time)) THEN Raise("ValueError")
    ELSE Ok([self EXCEPT !._time = _time])

\* the attribute self.tags: the bound method defined at measurement.py:18,
\* never the _tags dict
tags_attr(self) == [t |-> "method"]

\* _field_is_valid without its isinf test: a faulty variant the field-encoding
\* property must tell from the code
_field_is_valid_keeps_inf(value) ==
    IF value = None THEN FALSE
    ELSE IF IsFloat(value) /\ value.k = "nan" THEN FALSE
    ELSE TRUE

\* Measurement._field_is_valid (measurement.py:46)
_field_is_valid(value) ==
    IF value = None THEN FALSE
    ELSE IF IsFloat(value) /\ value.k \in {"inf", "ninf"} THEN FALSE
    ELSE IF IsFloat(value) /\ value.k = "nan" THEN FALSE
    ELSE TRUE

\* Measurement._parse_field_value (measurement.py:63), as the f-string of
\* _parse_fields then renders it
_parse_field_value(value) ==
    IF IsStr(value) THEN "\"" \o Format(value) \o "\"" ELSE Format(value)

RECURSIVE ValidFields(_)
\* [... for key in self.fields if self._field_is_valid(self.fields[key])]
ValidFields(fields) ==
    IF fields = <<>> THEN <<>>
    ELSE (IF _field_is_valid(Head(fields)[2])
          THEN <<Head(fields)[1] \o "=" \o _parse_field_value(Head(fields)[2])>>
          ELSE <<>>) \o ValidFields(Tail(fields))

\* Measurement._parse_fields (measurement.py:41)
_parse_fields(self) == Ok(Join(",", ValidFields(self.fields)))

\* Measurement._parse_tags (measurement.py:38): iterating None raises TypeError
_parse_tags(self) ==
    IF self._tags = None THEN Raise("TypeError")
    ELSE Ok(Join(",", [i \in 1..Len(self._tags.pairs) |->
                          self._tags.pairs[i][1] \o "=" \o Format(self._tags.pairs[i][2])]))

\* _parse_time with >= in place of >: a faulty variant the timestamp property
\* must tell from the code
_parse_time_inclusive(self) ==
    LET ge(a, b) == IF a.t = "float" /\ a.k # "fin" THEN a.k = "inf"
                    ELSE DoubleCmp(NumOf(a), NumOf(b)) >= 0
        multiplier ==
            IF ge(self._time, F1e18) THEN Ok(PyInt(1))
            ELSE IF ge(self._time, F1e15) THEN Ok(F1e3)
            ELSE IF ge(self._time, F1e12) THEN Ok(F1e6)
            ELSE IF ge(self._time, F1e9) THEN Ok(F1e9)
            ELSE Raise("ValueError")
    IN IF multiplier.err # "" THEN multiplier
       ELSE LET r == PyRound(PyMul(self._time, multiplier.val))
            IN IF r.err # "" THEN r ELSE Ok(IntStr(r.val))

\* Measurement._parse_time (measurement.py:69)
_parse_time(self) ==
    LET multiplier ==
            IF PyGt(self._time, F1e18) THEN Ok(PyInt(1))
            ELSE IF PyGt(self._time, F1e15) THEN Ok(F1e3)
            ELSE IF PyGt(self._time, F1e12) THEN Ok(F1e6)
            ELSE IF PyGt(self._time, F1e9) THEN Ok(F1e9)
            ELSE Raise("ValueError")
    IN IF multiplier.err # "" THEN multiplier
       ELSE LET r == PyRound(PyMul(self._time, multiplier.val))
            IN IF r.err # "" THEN r ELSE Ok(IntStr(r.val))

RECURSIVE FString(_)
\* an f-string: its parts are evaluated left to right, and the first one that
\* raises ends it
FString(parts) ==
    IF parts = <<>> THEN Ok("")
    ELSE IF Head(parts).err # "" THEN Head(parts)
    ELSE LET rest == FString(Tail(parts))
         IN IF rest.err # "" THEN rest ELSE Ok(Head(parts).val \o rest.val)

\* Measurement.__repr__ (measurement.py:28), which str(measurement) calls
__repr__(self) ==
    IF self._time # None /\ tags_attr(self) # None
    THEN FString(<<Ok(self.name), Ok(","), _parse_tags(self), Ok(" "), _parse_fields(self),
                   Ok(" "), _parse_time(self)>>)
    ELSE IF self._time # None
    THEN FString(<<Ok(self.name), Ok(" "), _parse_fields(self), Ok(" "), _parse_time(self)>>)
    ELSE IF self._tags # None
    THEN FString(<<Ok(self.name), Ok(","), _parse_tags(self), Ok(" "), _parse_fields(self)>>)
    ELSE FString(<<Ok(self.name), Ok(" "), _parse_fields(self)>>)


-----------------------------------------------------------------------------
(* The callers of measurement.py: build a measurement, set tags and time,  *)
(* encode it.                                                              *)

FieldSets ==
    { << <<"a", PyInt(1)>>, <<"b", NaN>>, <<"c", PyStr("s")>> >>,
      << <<"a", PyInt(1)>> >>,
      << <<"x", None>>, <<"y", Inf>>, <<"z", NegInf>> >>,
      << <<"f", PyFloat("1.5", FALSE, <<3>>, 1)>>, <<"n", None>>,
         <<"s", StrOf(<<"a", "\"", "b">>)>>, <<"k", PyInt(-7)>> >> }
TagSets ==
    { <<>>,
      << <<"t", PyStr("v")>> >>,
      << <<"host", PyStr("h1")>>, <<"region", PyStr("eu")>> >> }
\* timestamps at, just above and between the thresholds, as int and as float
Times ==
    { None, PyInt(0), PyInt(-5), PyBool(TRUE),
      PyIntBig(FALSE, BigShift(<<1>>, 3)), PyIntBig(FALSE, BigSucc(BigShift(<<1>>, 3))), PyInt(1625659548),
      PyIntBig(FALSE, BigShift(<<1>>, 4)), PyIntBig(FALSE, BigSucc(BigShift(<<1>>, 4))), PyIntBig(FALSE, <<1, 625, 659, 548, 123>>),
      PyIntBig(FALSE, BigShift(<<1>>, 5)), PyIntBig(FALSE, BigSucc(BigShift(<<1>>, 5))),
      PyIntBig(FALSE, <<1, 625, 659, 548, 123, 457>>),
      PyIntBig(FALSE, BigShift(<<1>>, 6)), PyIntBig(FALSE, BigSucc(BigShift(<<1>>, 6))),
      PyIntBig(FALSE, <<1, 625, 659, 548, 123, 456, 789>>),
      F1e9, PyFloat("1625659548.5", FALSE, <<3, 251, 319, 97>>, 1),
      PyFloat("1625659548123.25", FALSE, <<6, 502, 638, 192, 493>>, 2),
      F1e18, PyFloat("2e+18", FALSE, BigShift(<<2>>, 6), 0),
      NaN, Inf, NegInf,
      PyStr("now") }

Encoded(op, arg, r) == [op |-> op, arg |-> arg, err |-> r.err, text |-> r.val]

\* Measurement(name, **fields)
NewMeasurement ==
    /\ \E n \in {"name"}, f \in FieldSets : meas' = Measurement(n, f)
    /\ enc' = Encoded("__init__", None, Ok(""))
    /\ UNCHANGED <<rowVars, queryVars, writeVars>>

\* measurement.tags(key=value, ...)
Tags ==
    \E kw \in TagSets :
        /\ meas' = tags(meas, kw)
        /\ enc' = Encoded("tags", Dict(kw), Ok(""))
        /\ UNCHANGED <<rowVars, queryVars, writeVars>>

\* measurement.time(_time)
Time ==
    \E t \in Times :
        LET r == time(meas, t)
        IN /\ meas' = IF r.err = "" THEN r.val ELSE meas
           /\ enc' = Encoded("time", t, [r EXCEPT !.val = ""])
           /\ UNCHANGED <<rowVars, queryVars, writeVars>>

\* str(measurement)
Encode ==
    /\ enc' = Encoded("__repr__", None, __repr__(meas))
    /\ UNCHANGED <<meas, rowVars, queryVars, writeVars>>

\* measurement._parse_time(), the timestamp codec called on its own
ParseTime ==
    /\ meas._time # None
    /\ enc' = Encoded("_parse_time", None, _parse_time(meas))
    /\ UNCHANGED <<meas, rowVars, queryVars, writeVars>>

-----------------------------------------------------------------------------
(* client.py: class _Query and its decorators.  Python lists are objects:  *)
(* the heap h = [imports, queries] holds the _imports lists (imports[i] is *)
(* the content of list object i) and the _Query objects, each              *)
(* [_components, _imports] with _imports a reference into h.imports.       *)
(* _components is never shared: every _Query gets a fresh list.            *)

\* datetime.datetime.fromtimestamp(x) for a float x, in a process whose local
\* time zone is UTC: a naive datetime.  nan raises ValueError, inf OverflowError
fromtimestamp(x) ==
    IF x.k = "nan" THEN Raise("ValueError")
    ELSE IF x.k # "fin" THEN Raise("OverflowError")
    ELSE Ok(CASE x.repr = "1625659548.0" -> DateTime("2021-07-07T12:05:48", <<>>)
              [] x.repr = "1625745948.5" -> DateTime("2021-07-08T12:05:48.500000", <<>>)
              [] OTHER -> DateTime("1970-01-01T00:00:00", <<>>))

\* _Query._dt_to_rfc3339 (client.py:362): isoformat() is the naive part followed
\* by the UTC offset tz = <<sign, hh:mm>>, if any (<<>> for a naive datetime);
\* split('+')[0] cuts a positive offset only
_dt_to_rfc3339(datetime_obj) ==
    IF datetime_obj.tz # <<>> /\ datetime_obj.tz[1] = "+" THEN datetime_obj.naive \o "Z"
    ELSE datetime_obj.naive \o Cat(datetime_obj.tz) \o "Z"

\* one of the two identical type chains of _validate_range, without its None case
ValidateBound(x) ==
    IF IsFloat(x)
    THEN LET d == fromtimestamp(x)
         IN IF d.err # "" THEN d ELSE Ok(PyStr(_dt_to_rfc3339(d.val)))
    ELSE IF IsInt(x) \/ IsStr(x) THEN Ok(x)
    ELSE IF x.t = "datetime" THEN Ok(PyStr(_dt_to_rfc3339(x)))
    ELSE Raise("ValueError")

\* _Query._validate_range (client.py:338): stop is looked at first
_validate_range(start, stop) ==
    LET v_stop == IF stop = None THEN Ok(PyStr("now()")) ELSE ValidateBound(stop)
        v_start == IF start = None THEN Raise("ValueError") ELSE ValidateBound(start)
    IN IF v_stop.err # "" THEN v_stop
       ELSE IF v_start.err # "" THEN v_start
       ELSE Ok(<<v_start.val, v_stop.val>>)

\* if isinstance(x, str): x = [x]
AsList(x) == IF IsStr(x) THEN List(<<x>>) ELSE x

\* str(b).lower() for a bool b
LowerStr(b) == IF b.b THEN "true" ELSE "false"

\* ', '.join([f'{key}: {d[key]}' for key in d])
DictItems(d) == Join(", ", [i \in 1..Len(d.pairs) |-> d.pairs[i][1] \o ": " \o Format(d.pairs[i][2])])

\* The stage methods, undecorated: each returns Ok(the str it returns) or raises.

range(start, stop) ==
    LET v == _validate_range(start, stop)
    IN IF v.err # "" THEN v
       ELSE Ok(PyStr("|> range(start: " \o Format(v.val[1]) \o ", stop: " \o Format(v.val[2]) \o ")"))

filter(condition) == Ok(PyStr("|> filter(fn: (r) => " \o Format(condition) \o ")"))

pivot(rows, columns, value) ==
    LET r == parse_to_string(AsList(rows))
        c == parse_to_string(AsList(columns))
    IN IF r.err # "" THEN r
       ELSE IF c.err # "" THEN c
       ELSE Ok(PyStr("|> pivot(rowKey: " \o r.val \o ", columnKey: " \o c.val
                     \o ", valueColumn: \"" \o Format(value) \o "\")"))

group(columns, mode) ==
    LET p == IF columns # None THEN parse_to_string(AsList(columns)) ELSE Ok("")
        column_component == IF columns # None THEN "columns: " \o p.val ELSE ""
        mode_component == IF mode # None THEN ", mode: \"" \o Format(mode) \o "\"" ELSE ""
    IN IF p.err # "" THEN p
       ELSE Ok(PyStr("|> group(" \o column_component \o mode_component \o ")"))

sort(columns, desc) ==
    LET c == parse_to_string(AsList(columns))
        d == parse_to_string(desc)
    IN IF c.err # "" THEN c
       ELSE IF d.err # "" THEN d
       ELSE Ok(PyStr("|> sort(columns: " \o c.val \o ", desc: " \o d.val \o ")"))

limit(n, offset) == Ok(PyStr("|> limit(n: " \o Format(n) \o ", offset: " \o Format(offset) \o ")"))

last(column) == Ok(PyStr("|> last(column: \"" \o Format(column) \o "\")"))

drop(columns) ==
    LET c == parse_to_string(columns)
    IN IF c.err # "" THEN c ELSE Ok(PyStr("|> drop(columns: " \o c.val \o ")"))

mean(column) == Ok(PyStr("|> mean(column: \"" \o Format(column) \o "\")"))

std(column, mode) ==
    Ok(PyStr("|> stddev(column: \"" \o Format(column) \o "\", mode: \"" \o Format(mode) \o "\")"))

count(column) == Ok(PyStr("|> count(column: \"" \o Format(column) \o "\")"))

fill(value, column, use_previous) ==
    Ok(PyStr("|> fill(value: " \o Format(value) \o ", column: " \o Format(column)
             \o ", usePrevious: " \o LowerStr(use_previous) \o ")"))

map(operations, keep_original) ==
    LET starter == IF keep_original.b THEN " r with " ELSE ""
        components == DictItems(operations)
    IN Ok(PyStr("|> map(fn: (r) => ({ " \o starter \o " " \o components \o " }))"))

reduce(reductor, identity) ==
    Ok(PyStr("|> reduce(fn: (r, accumulator) => ({ " \o DictItems(reductor)
             \o " }), identity: { " \o DictItems(identity) \o " })"))

\* the first definition of keep (client.py:217), which the class body no longer
\* binds: a variant the keep property must tell from the second
keep_columns_only(columns) ==
    LET c == parse_to_string(columns)
    IN IF c.err # "" THEN c ELSE Ok(PyStr("|> keep(columns: " \o c.val \o ")"))

\* the second definition of keep (client.py:277), which replaces the first (client.py:217)
keep(columns) ==
    IF IsList(columns)
    THEN LET c == parse_to_string(columns)
         IN IF c.err # "" THEN c ELSE Ok(PyStr("|> keep(columns: " \o c.val \o ")"))
    ELSE IF IsStr(columns)
    THEN Ok(PyStr("|> keep(fn: (column) => column =~ " \o Format(columns) \o ")"))
    ELSE Raise("AttributeError")

aggregate_window(every, fn, create_empty) ==
    Ok(PyStr("|> aggregateWindow(every: " \o Format(every) \o ", fn: " \o Format(fn)
             \o ", createEmpty: " \o LowerStr(create_empty) \o ")"))

unpivot(other_columns) ==
    LET c == parse_to_string(AsList(other_columns))
    IN IF c.err # "" THEN c
       ELSE Ok(PyStr("|> experimental.unpivot(otherColumns: " \o c.val \o ")"))

\* _Query.__init__ (client.py:110): imports is a reference to a list object, or
\* 0 for None; `imports or []` keeps a non-empty list object and replaces None
\* and an empty one by a new empty list.  Returns the heap and the new object.
_Query(h, components, importsRef) ==
    LET fresh == importsRef = 0 \/ h.imports[importsRef] = <<>>
        ref == IF fresh THEN Len(h.imports) + 1 ELSE importsRef
        obj == [_components |-> components, _imports |-> ref]
    IN [h |-> [imports |-> IF fresh THEN Append(h.imports, <<>>) ELSE h.imports,
               queries |-> Append(h.queries, obj)],
        ret |-> Len(h.queries) + 1]

\* _Query.new (client.py:119)
new(h, bucket) == _Query(h, <<"from(bucket: \"" \o Format(bucket) \o "\")">>, 0)

\* add_to_query putting the new fragment first: a faulty variant the rendering
\* property must tell from the code
add_to_query_prepend(h, self, r) ==
    IF r.err # "" THEN [h |-> h, err |-> r.err, ret |-> 0]
    ELSE IF ~(IsStr(r.val) \/ r.val.t \in {"tuple", "list"})
    THEN [h |-> h, err |-> "ValueError", ret |-> 0]
    ELSE LET query_addition == IF IsStr(r.val) THEN <<Format(r.val)>>
                               ELSE [i \in 1..Len(r.val.items) |-> Format(r.val.items[i])]
             q == _Query(h, query_addition \o h.queries[self]._components,
                         h.queries[self]._imports)
         IN [h |-> q.h, err |-> "", ret |-> q.ret]

\* add_to_query's inner (client.py:71), given what func returned or raised:
\* [h, err, ret], ret the new _Query object or 0
add_to_query(h, self, r) ==
    IF r.err # "" THEN [h |-> h, err |-> r.err, ret |-> 0]
    ELSE IF ~(IsStr(r.val) \/ r.val.t \in {"tuple", "list"})
    THEN [h |-> h, err |-> "ValueError", ret |-> 0]
    ELSE LET query_addition == IF IsStr(r.val) THEN <<Format(r.val)>>
                               ELSE [i \in 1..Len(r.val.items) |-> Format(r.val.items[i])]
             q == _Query(h, h.queries[self]._components \o query_addition,
                         h.queries[self]._imports)
         IN [h |-> q.h, err |-> "", ret |-> q.ret]

\* add_import without its membership test: a faulty variant the import
\* property must tell from the code
add_import_always(h, self, import_name) ==
    [h EXCEPT !.imports[h.queries[self]._imports] = Append(@, import_name)]

\* add_import's inner (client.py:85), up to its call of func: appends to the
\* receiver's own list object
add_import(h, self, import_name) ==
    LET ref == h.queries[self]._imports
    IN IF \E i \in 1..Len(h.imports[ref]) : h.imports[ref][i] = import_name THEN h
       ELSE [h EXCEPT !.imports[ref] = Append(@, import_name)]

\* _Query._generate_query_str (client.py:303)
_generate_query_str(h, self) ==
    LET own == h.imports[h.queries[self]._imports]
        final_components == [i \in 1..Len(own) |-> "import \"" \o own[i] \o "\""]
                            \o h.queries[self]._components
    IN Join("\n", final_components)

-----------------------------------------------------------------------------
(* client.py: Client.write.  The external write API is what               *)
(* self.write_api(options...) returns; the calls Client.write makes on it *)
(* are recorded as [op, arg, bucket, org, record].                         *)

\* Client.write sending every line as soon as it is encoded: a faulty variant
\* the batch property must tell from the code
write_line_by_line(self, bucket, measurements, write_mode) ==
    LET batch == IF "name" \in DOMAIN measurements THEN <<measurements>>
                 ELSE measurements.items
        lines == [i \in 1..Len(batch) |-> __repr__(batch[i])]
        failed == {i \in 1..Len(batch) : lines[i].err # ""}
        first == IF failed = {} THEN Len(batch) + 1
                 ELSE CHOOSE i \in failed : \A j \in failed : i <= j
    IN [err |-> IF failed = {} THEN "" ELSE lines[first].err,
        calls |-> [i \in 1..(first - 1) |->
                      [op |-> "write", arg |-> "", bucket |-> bucket, org |-> self.org,
                       record |-> lines[i].val]]]

\* Client.write (client.py:32): [err, calls], the exception it raises ("" if
\* none) and the calls it made on the write API.  isinstance(measurements,
\* Measurement) wraps a single measurement; the record is evaluated before
\* write_api.write is called, str(elem) by str(elem) in batch order, and the
\* first one that raises ends the call; the with statement closes the API
\* either way.
write(self, bucket, measurements, write_mode) ==
    LET batch == IF "name" \in DOMAIN measurements THEN <<measurements>>
                 ELSE measurements.items
        options == IF write_mode = "SYNCHRONOUS" THEN "write_options" ELSE "callbacks"
        Api(op, arg, b, o, record) ==
            [op |-> op, arg |-> arg, bucket |-> b, org |-> o, record |-> record]
        lines == [i \in 1..Len(batch) |-> __repr__(batch[i])]
        failed == {i \in 1..Len(batch) : lines[i].err # ""}
        first == CHOOSE i \in failed : \A j \in failed : i <= j
        record == Join("\n", [i \in 1..Len(batch) |-> lines[i].val])
    IN IF failed # {}
       THEN [err |-> lines[first].err,
             calls |-> <<Api("write_api", options, "", "", ""), Api("__exit__", "", "", "", "")>>]
       ELSE [err |-> "",
             calls |-> <<Api("write_api", options, "", "", ""),
                         Api("write", "", bucket, self.org, record),
                         Api("__exit__", "", "", "", "")>>]

-----------------------------------------------------------------------------
(* The callers of client.py: Client.query(bucket) starts a pipeline, each  *)
(* stage method is called on any pipeline built so far, all() renders one. *)

\* calls are made while fewer than MaxQueries _Query objects exist
MaxQueries == 3

\* the arguments each stage method is called with
Args ==
    [range |->
        { <<PyStr("-15d"), None>>,
          <<PyInt(1625659548), PyInt(1625745948)>>,
          <<PyFloat("1625659548.0", FALSE, BigOfNat(1625659548), 0),
            DateTime("2021-07-08T12:05:48", <<"+", "00:00">>)>>,
          <<None, None>>,
          <<List(<<PyInt(1)>>), None>>,
          <<PyStr("-15d"), List(<<PyInt(1)>>)>> },
     filter |-> {PyStr(__eq__(ROW("x"), PyInt(5)).val)},
     pivot |-> {<<PyStr("_time"), PyStr("_field"), PyStr("_value")>>},
     group |-> {<<None, None>>, <<PyStr("host"), PyStr("by")>>},
     sort |-> {<<PyStr("_time"), PyBool(FALSE)>>},
     limit |-> {<<PyInt(10), PyInt(0)>>},
     column |-> {PyStr("_value")},
     drop |-> {List(<<PyStr("a")>>)},
     fill |-> {<<PyInt(0), PyStr("_value"), PyBool(FALSE)>>},
     map |-> {<<Dict(<< <<"total", __add__(ROW("first"), ROW("second"))>> >>), PyBool(TRUE)>>},
     reduce |->
        {<<Dict(<< <<"sum", __add__(ROW("_value"), _RowOp("accumulator.sum"))>> >>),
           Dict(<< <<"sum", PyFloat("0.0", FALSE, <<0>>, 0)>> >>)>>},
     keep |->
        { List(<<PyStr("a"), PyStr("b")>>), PyStr("^x"),
          Tuple(<<PyStr("a"), PyStr("b")>>), PyInt(3) },
     aggregate_window |-> {<<PyStr("1h"), PyStr("last"), PyBool(FALSE)>>},
     unpivot |-> {List(<<PyStr("_time")>>), PyStr("_time"), SetOf(<<PyStr("_time")>>)}]

H == [imports |-> imports, queries |-> queries]
Pipelines == 1..Len(queries)

\* call: the last call, its argument and the exception it raised ("" if none)
CallOf(op, arg, err) == [op |-> op, arg |-> arg, err |-> err]

\* Client.query(bucket) (client.py:25)
Query ==
    /\ Len(queries) < MaxQueries
    /\ call.err = ""
    /\ \E bucket \in {PyStr("my-bucket")} :
          LET q == new(H, bucket)
          IN /\ imports' = q.h.imports
             /\ queries' = q.h.queries
             /\ chain' = Append(chain, [bucket |-> bucket, parent |-> 0, calls |-> <<>>])
             /\ call' = CallOf("query", bucket, "")
    /\ UNCHANGED <<rowVars, measVars, writeVars>>

\* client.py catches nothing, so an exception reaches the caller, and the next
\* call is made only by a caller that caught it (action Catch).
\* A call self.op(arg) of a stage method whose decorated body starts from heap
\* h0 (the heap as add_import left it) and whose undecorated body returned or
\* raised r.  chain records, per pipeline, the pipeline it was built from and
\* the calls of its chain: method, argument and the fragment the method returned.
StageCall(op, self, arg, h0, r) ==
    LET a == add_to_query(h0, self, r)
    IN /\ Len(queries) < MaxQueries
       /\ call.err = ""
       /\ imports' = a.h.imports
       /\ queries' = a.h.queries
       /\ chain' = IF a.err # "" THEN chain
                   ELSE Append(chain,
                               [bucket |-> chain[self].bucket, parent |-> self,
                                calls |-> Append(chain[self].calls,
                                                 [op |-> op, arg |-> arg, text |-> Format(r.val)])])
       /\ call' = CallOf(op, arg, a.err)
       /\ UNCHANGED <<rowVars, measVars, writeVars>>

Range ==
    \E self \in Pipelines, a \in Args.range :
        StageCall("range", self, Tuple(a), H, range(a[1], a[2]))
Filter == \E self \in Pipelines, a \in Args.filter : StageCall("filter", self, a, H, filter(a))
Pivot ==
    \E self \in Pipelines, a \in Args.pivot :
        StageCall("pivot", self, Tuple(a), H, pivot(a[1], a[2], a[3]))
Group ==
    \E self \in Pipelines, a \in Args.group :
        StageCall("group", self, Tuple(a), H, group(a[1], a[2]))
Sort ==
    \E self \in Pipelines, a \in Args.sort :
        StageCall("sort", self, Tuple(a), H, sort(a[1], a[2]))
Limit ==
    \E self \in Pipelines, a \in Args.limit :
        StageCall("limit", self, Tuple(a), H, limit(a[1], a[2]))
Last == \E self \in Pipelines, a \in Args.column : StageCall("last", self, a, H, last(a))
Drop == \E self \in Pipelines, a \in Args.drop : StageCall("drop", self, a, H, drop(a))
Mean == \E self \in Pipelines, a \in Args.column : StageCall("mean", self, a, H, mean(a))
Std ==
    \E self \in Pipelines, a \in Args.column :
        StageCall("std", self, a, H, std(a, PyStr("sample")))
Count == \E self \in Pipelines, a \in Args.column : StageCall("count", self, a, H, count(a))
Fill ==
    \E self \in Pipelines, a \in Args.fill :
        StageCall("fill", self, Tuple(a), H, fill(a[1], a[2], a[3]))
Map ==
    \E self \in Pipelines, a \in Args.map :
        StageCall("map", self, Tuple(a), H, map(a[1], a[2]))
Reduce ==
    \E self \in Pipelines, a \in Args.reduce :
        StageCall("reduce", self, Tuple(a), H, reduce(a[1], a[2]))
Keep == \E self \in Pipelines, a \in Args.keep : StageCall("keep", self, a, H, keep(a))
AggregateWindow ==
    \E self \in Pipelines, a \in Args.aggregate_window :
        StageCall("aggregate_window", self, Tuple(a), H, aggregate_window(a[1], a[2], a[3]))
\* @add_import('experimental') wraps @add_to_query (client.py:96)
Unpivot ==
    \E self \in Pipelines, a \in Args.unpivot :
        StageCall("unpivot", self, a, add_import(H, self, "experimental"), unpivot(a))

\* the caller's try/except around a stage call: it goes on with the pipelines it holds
Catch ==
    /\ call.err # ""
    /\ call' = CallOf("except", None, "")
    /\ UNCHANGED <<imports, queries, chain, rowVars, measVars, writeVars>>

\* calls of Client.write a caller makes, and the longest batch it passes
MaxWrites == 2
MaxBatch == 2

\* measurements a caller has built: with tags and time, with fields only, with a
\* timestamp that cannot be encoded, and with a time but no tags
Points ==
    { time(tags(Measurement("name", << <<"a", PyInt(1)>> >>), << <<"host", PyStr("h1")>> >>),
           PyInt(1625659548)).val,
      Measurement("cpu", << <<"a", PyInt(1)>>, <<"b", NaN>>, <<"c", PyStr("s")>> >>),
      time(tags(Measurement("name", << <<"a", PyInt(1)>> >>), << <<"t", PyStr("v")>> >>),
           PyInt(5)).val,
      time(Measurement("mem", << <<"a", PyInt(1)>> >>), PyInt(1625659548)).val }

\* what a caller passes as measurements: a list or a tuple of them, or a single one
Batches ==
    Points
    \cup {List(b) : b \in UNION {[1..n -> Points] : n \in 0..MaxBatch}}
    \cup {Tuple(b) : b \in [1..2 -> Points]}

\* what Client.write does with each input, on a Client whose org is "my-org"
Written ==
    [m \in Batches, mode \in {"SYNCHRONOUS", "ASYNCHRONOUS"} |->
        write([org |-> "my-org"], "my-bucket", m, mode)]

\* client.write(bucket, measurements, write_mode): the calls made on the write
\* API are added to the ones made so far; client.py catches nothing, so an
\* exception ends the caller
Write ==
    /\ Cardinality({i \in 1..Len(sent) : sent[i].op = "write_api"}) < MaxWrites
    /\ wcall.err = ""
    /\ \E m \in Batches, mode \in {"SYNCHRONOUS", "ASYNCHRONOUS"} :
           /\ sent' = sent \o Written[m, mode].calls
           /\ wcall' = [measurements |-> m, write_mode |-> mode, err |-> Written[m, mode].err]
    /\ UNCHANGED <<rowVars, measVars, queryVars>>

-----------------------------------------------------------------------------
(* Specifications: one per source file, the others' objects left alone.   *)

\* the objects of a file no call is made on
MeasIdle ==
    /\ meas = Measurement("name", <<>>)
    /\ enc = Encoded("__init__", None, Ok(""))

RowIdle ==
    /\ expr = ROW("a")
    /\ res = Called("ROW", expr, None, Ok(""))
    /\ nops = 0

QueryIdle ==
    /\ imports = <<>>
    /\ queries = <<>>
    /\ chain = <<>>
    /\ call = CallOf("", None, "")

WriteIdle ==
    /\ sent = <<>>
    /\ wcall = [measurements |-> None, write_mode |-> "", err |-> ""]

\* a ROW on some column
RowInit ==
    /\ expr \in {ROW(c) : c \in RowArgs.column}
    /\ res = Called("ROW", expr, None, Ok(""))
    /\ nops = 0
    /\ MeasIdle
    /\ QueryIdle
    /\ WriteIdle

\* a Measurement with some fields, neither tags nor time set
MeasInit ==
    /\ meas \in {Measurement(n, f) : n \in {"name"}, f \in FieldSets}
    /\ enc = Encoded("__init__", None, Ok(""))
    /\ RowIdle
    /\ QueryIdle
    /\ WriteIdle

\* a Client, no pipeline started and nothing written
QueryInit ==
    /\ QueryIdle
    /\ WriteIdle
    /\ RowIdle
    /\ MeasIdle

RowNext ==
    \/ NewROW
    \/ Eq \/ Ne \/ Ge \/ Gt \/ Le \/ Lt
    \/ In \/ NotIn \/ Exists
    \/ Add \/ Sub \/ Mul \/ TrueDiv
    \/ RSub \/ RTrueDiv \/ RAdd \/ RMul
    \/ Or \/ And
    \/ ParseToString

SpecRow == RowInit /\ [][RowNext]_vars

MeasNext ==
    \/ NewMeasurement
    \/ Tags
    \/ Time
    \/ Encode
    \/ ParseTime

SpecMeasurement == MeasInit /\ [][MeasNext]_vars

QueryNext ==
    \/ Query
    \/ Range \/ Filter \/ Pivot \/ Group \/ Sort \/ Limit \/ Last \/ Drop \/ Keep
    \/ Mean \/ Std \/ Count \/ Fill \/ Map \/ Reduce \/ AggregateWindow
    \/ Unpivot

\* every stage method, called by a caller that lets an exception end it
SpecQuery == QueryInit /\ [][QueryNext]_vars

CaughtNext ==
    \/ Query
    \/ Range \/ Keep
    \/ Unpivot
    \/ Catch

\* the methods that differ in their decorators or in how they fail, called by a
\* caller that catches an exception and goes on
SpecCaught == QueryInit /\ [][CaughtNext]_vars

\* Client.write called some times on one Client
SpecWrite == QueryInit /\ [][Write]_vars

-----------------------------------------------------------------------------
(* Properties of client.py.                                                *)

\* the text all() sends for pipeline q: _generate_query_str on the current heap
Rendered(q) == _generate_query_str(H, q)

\* C1: building a pipeline never mutates a previously returned pipeline: after
\* p2 = p1.stage(...), for any of the seventeen stage methods, the text of
\* p1.render() is what it was before the call (and so is that of every other
\* pipeline built before it).
C1_StageCallLeavesRenderUnchanged ==
    [][Len(queries') > Len(queries) =>
          \A p1 \in Pipelines : _generate_query_str(H', p1) = _generate_query_str(H, p1)]_vars

\* the four kinds of failing stage call: range with absent start, range with a
\* start or stop of unsupported type, keep with neither a list nor a str,
\* unpivot with an argument json cannot serialize
MustFail(c) ==
    \/ /\ c.op = "range"
       /\ \/ c.arg.items[1] = None
          \/ \E i \in {1, 2} : c.arg.items[i].t \notin {"none", "str", "int", "bool", "float", "datetime"}
    \/ c.op = "keep" /\ ~IsList(c.arg) /\ ~IsStr(c.arg)
    \/ c.op = "unpivot" /\ c.arg.t = "set"

\* C3: every failing stage call (the four kinds of MustFail) raises, and leaves
\* the receiver unaffected: the fragment list and the import list of every
\* pipeline, and so its render() text, are the same before and after the failed
\* call, and no new pipeline is produced.
C3_FailedCallLeavesReceiver ==
    [][/\ (call' # call /\ MustFail(call')) => call'.err # ""
       /\ call'.err # "" =>
             /\ queries' = queries
             /\ imports' = imports
             /\ \A p \in Pipelines : _generate_query_str(H', p) = _generate_query_str(H, p)]_vars

\* the line a pipeline started on bucket begins with
FromLine(bucket) == "from(bucket: \"" \o Format(bucket) \o "\")"

\* the fragments the calls of q's chain returned, in call order
Fragments(q) == [i \in 1..Len(chain[q].calls) |-> chain[q].calls[i].text]

\* one import line per name of q's import list
ImportLines(q) ==
    LET own == imports[queries[q]._imports]
    IN [i \in 1..Len(own) |-> "import \"" \o own[i] \o "\""]

\* C4: for a chain start(bucket) followed by n successful stage calls, render()
\* is the newline-join of the import lines, then one from(bucket: "<bucket>")
\* line, then exactly n stage fragments, one per call, in call order; and each
\* successful stage call returns a pipeline whose fragment list is the
\* receiver's plus exactly one fragment appended at the end.
C4_RenderIsImportsFromFragments ==
    \A q \in Pipelines :
        /\ Rendered(q) =
              Join("\n", ImportLines(q) \o <<FromLine(chain[q].bucket)>> \o Fragments(q))
        /\ Len(queries[q]._components) = 1 + Len(chain[q].calls)
        /\ chain[q].parent # 0 =>
              queries[q]._components =
                 Append(queries[chain[q].parent]._components,
                        chain[q].calls[Len(chain[q].calls)].text)

\* a pipeline built by two successful stage calls, rendered as three lines
C4_TwoStagesRendered ==
    \E q \in Pipelines :
        /\ Len(chain[q].calls) = 2
        /\ chain[q].calls[1].op = "range"
        /\ chain[q].calls[2].op = "filter"
        /\ Rendered(q) = Join("\n", <<FromLine(chain[q].bucket), chain[q].calls[1].text,
                                      chain[q].calls[2].text>>)

\* C5: unpivot() makes render() begin with exactly one import "experimental"
\* line however often it is called: no import list holds a name twice, and a
\* pipeline whose chain has an unpivot call renders that line once, before the
\* from(...) line.
C5_OneExperimentalImport ==
    /\ \A l \in DOMAIN imports :
          \A i, j \in DOMAIN imports[l] : imports[l][i] = imports[l][j] => i = j
    /\ \A q \in Pipelines :
          (\E i \in DOMAIN chain[q].calls : chain[q].calls[i].op = "unpivot") =>
              /\ Rendered(q) = Join("\n", <<"import \"experimental\"">> \o queries[q]._components)
              /\ queries[q]._components[1] = FromLine(chain[q].bucket)
              /\ \A i \in DOMAIN queries[q]._components :
                    queries[q]._components[i] # "import \"experimental\""

\* a pipeline built by two unpivot calls
C5_UnpivotTwice ==
    \E q \in Pipelines :
        /\ Len(chain[q].calls) = 2
        /\ \A i \in {1, 2} : chain[q].calls[i].op = "unpivot"
        /\ imports[queries[q]._imports] = <<"experimental">>

\* keep's two branches, with sep between the names of a column list: what a
\* pipeline whose last call is keep got appended, and which keep calls fail
KeepRenders(sep) ==
    /\ \A q \in Pipelines :
          LET n == Len(chain[q].calls)
              c == chain[q].calls[n]
              appended == queries[q]._components[Len(queries[q]._components)]
          IN (n > 0 /\ c.op = "keep") =>
                /\ IsList(c.arg) \/ IsStr(c.arg)
                /\ IsList(c.arg) =>
                      appended = "|> keep(columns: ["
                                 \o Join(sep, [i \in 1..Len(c.arg.items) |->
                                                  "\"" \o Format(c.arg.items[i]) \o "\""])
                                 \o "])"
                /\ IsStr(c.arg) =>
                      appended = "|> keep(fn: (column) => column =~ " \o Format(c.arg) \o ")"
    /\ call.op = "keep" => (call.err # "" <=> ~(IsList(call.arg) \/ IsStr(call.arg)))

\* C8: keep renders by argument type: a list of column names appends
\* |> keep(columns: [...]) with the quoted names joined by a comma and a space,
\* so keep(["a","b"]) yields |> keep(columns: ["a", "b"]); a str appends
\* |> keep(fn: (column) => column =~ <string>); any other type raises.
C8_KeepByArgumentType == KeepRenders(", ")

\* C8 as first stated: the quoted names joined by a bare comma, so that
\* keep(["a","b"]) yields |> keep(columns: ["a","b"])
C8_KeepCommaJoined == KeepRenders(",")

\* keep(["a", "b"]) was the last call of a pipeline
C8_KeepOfList ==
    \E q \in Pipelines :
        /\ chain[q].calls # <<>>
        /\ chain[q].calls[Len(chain[q].calls)].op = "keep"
        /\ chain[q].calls[Len(chain[q].calls)].arg = List(<<PyStr("a"), PyStr("b")>>)
        /\ queries[q]._components[Len(queries[q]._components)] = "|> keep(columns: [\"a\", \"b\"])"

-----------------------------------------------------------------------------
(* Properties of utils.py.                                                 *)

\* C9: serializing an absent value fails: parse_to_string(None) raises and
\* returns no text, and so does a comparison or a membership test whose operand
\* is None (ROW("x") == None for one).
C9_NoneIsNotSerialized ==
    (/\ res.op \in {"parse_to_string", "__eq__", "__ne__", "__ge__", "__gt__", "__le__",
                    "__lt__", "in_", "not_in_"}
     /\ res.other = None)
        => (res.err # "" /\ res.text = "")

\* the operator an arithmetic method renders
OpSign(op) ==
    CASE op \in {"__add__", "__radd__"} -> "+"
      [] op \in {"__sub__", "__rsub__"} -> "-"
      [] op \in {"__mul__", "__rmul__"} -> "*"
      [] op \in {"__truediv__", "__rtruediv__"} -> "/"

\* C10: arithmetic keeps the operand order of the call: with the expression on
\* the left of an operand x the text is <expr> <op> <x>, with the expression on
\* the right of a literal x (the reflected form, 5 - ROW("a")) it is
\* <x> <op> <expr>; sums and differences are parenthesized, and the result is a
\* computed expression that renders as that text verbatim.
C10_OperandOrderKept ==
    LET left == {"__add__", "__sub__", "__mul__", "__truediv__"}
        right == {"__radd__", "__rsub__", "__rmul__", "__rtruediv__"}
        bare == IF res.op \in left
                THEN RowRepr(res.self) \o " " \o OpSign(res.op) \o " " \o Format(res.other)
                ELSE Format(res.other) \o " " \o OpSign(res.op) \o " " \o RowRepr(res.self)
        text == IF OpSign(res.op) \in {"+", "-"} THEN "(" \o bare \o ")" ELSE bare
    IN res.op \in left \cup right =>
          /\ res.err = ""
          /\ res.text = text
          /\ expr.t = "rowop"
          /\ RowRepr(expr) = text

-----------------------------------------------------------------------------
(* Properties of measurement.py.                                           *)

\* a timestamp is valid when it is a number above the seconds threshold that
\* round() can turn into an int
ValidTime(t) == (IsInt(t) \/ (IsFloat(t) /\ t.k = "fin")) /\ PyGt(t, F1e9)

\* the entries of fields that are kept, each as key=value, comma-joined:
\* str values double-quoted verbatim, every other value as Python prints it
FieldList(fields) ==
    LET dropped(v) == v = None \/ (IsFloat(v) /\ v.k \in {"nan", "inf", "ninf"})
        kept == SelectSeq(fields, LAMBDA e : ~dropped(e[2]))
    IN Join(",", [i \in 1..Len(kept) |->
                     kept[i][1] \o "=" \o
                     (IF IsStr(kept[i][2]) THEN "\"" \o Cat(kept[i][2].s) \o "\""
                      ELSE Format(kept[i][2]))])

\* the tags as key=value, comma-joined, in the order they were given
TagList(pairs) == Join(",", [i \in 1..Len(pairs) |-> pairs[i][1] \o "=" \o Format(pairs[i][2])])

\* C2: encoding picks one of four line forms by presence of tags and timestamp,
\* after any sequence of tags()/time() calls: tags and timestamp give
\* name,<tags> <fields> <nanos>; timestamp and no tags name <fields> <nanos>;
\* tags and no timestamp name,<tags> <fields>; neither name <fields>.  A
\* measurement with a valid timestamp and no tags encodes without error and
\* without a tag section.
C2_FourLineForms ==
    (enc.op = "__repr__" /\ (meas._time = None \/ ValidTime(meas._time))) =>
        /\ enc.err = ""
        /\ enc.text =
              meas.name
              \o (IF meas._tags # None THEN "," \o TagList(meas._tags.pairs) ELSE "")
              \o " " \o FieldList(meas.fields)
              \o (IF meas._time # None THEN " " \o _parse_time(meas).val ELSE "")

\* an int, a bool or a finite float
Finite(t) == IsInt(t) \/ (IsFloat(t) /\ t.k = "fin")

\* how many of the thresholds 1e9, 1e12, 1e15, 1e18 lie strictly below t
Magnitude(t) == Cardinality({f \in {F1e9, F1e12, F1e15, F1e18} : PyGt(t, f)})

\* the nanoseconds of a timestamp above the seconds threshold: t itself above
\* 1e18, else the product of t and 1e3, 1e6 or 1e9, a double, rounded to an int
Nanos(t) ==
    LET product == CASE Magnitude(t) = 4 -> t
                     [] Magnitude(t) = 3 -> PyMul(t, F1e3)
                     [] Magnitude(t) = 2 -> PyMul(t, F1e6)
                     [] Magnitude(t) = 1 -> PyMul(t, F1e9)
    IN IntStr(PyRound(product).val)

\* the line of a measurement that encodes
LineOf(m, nanos) ==
    m.name
    \o (IF m._tags # None THEN "," \o TagList(m._tags.pairs) ELSE "")
    \o " " \o FieldList(m.fields)
    \o (IF m._time # None THEN " " \o nanos ELSE "")

C7_FieldsFiltered ==
    enc.op = "__repr__" =>
        /\ enc.err = "" =>
              enc.text = LineOf(meas, IF meas._time # None THEN _parse_time(meas).val ELSE "")
        /\ meas._time = None => enc.err = ""
        /\ enc.err = __repr__([meas EXCEPT !.fields = <<>>]).err

\* a measurement whose three fields are all dropped, encoded
C7_AllFieldsDropped ==
    /\ enc.op = "__repr__"
    /\ meas.fields = << <<"x", None>>, <<"y", Inf>>, <<"z", NegInf>> >>
    /\ meas._tags = None
    /\ enc.err = ""
    /\ enc.text = "name "

\* the encoding of each measurement a caller has built: its line or its exception
EncodedLine == [p \in Points |-> __repr__(p)]

\* the measurements of a batch, a single measurement being a batch of one
BatchOf(measurements) ==
    IF "name" \in DOMAIN measurements THEN <<measurements>> ELSE measurements.items

\* C11: a batch write is all-or-nothing towards the external writer: a call of
\* write(bucket, measurements) adds at most one write call to the ones the
\* writer has received; when every measurement encodes, exactly one, carrying
\* the bucket, the client's org and the encoded lines of the whole batch joined
\* by newlines in batch order, and write returns; when any measurement fails
\* to encode (a timestamp <= 1e9, for one) write raises and the writer
\* receives no write call at all.
C11_BatchAllOrNothing ==
    [][ (wcall' # wcall \/ sent' # sent) =>
          LET batch == BatchOf(wcall'.measurements)
              lines == [i \in 1..Len(batch) |-> EncodedLine[batch[i]]]
              added == SubSeq(sent', Len(sent) + 1, Len(sent'))
              writes == SelectSeq(added, LAMBDA c : c.op = "write")
          IN /\ Len(sent') >= Len(sent)
             /\ SubSeq(sent', 1, Len(sent)) = sent
             /\ Len(writes) <= 1
             /\ (\E i \in 1..Len(batch) :
                    batch[i]._time # None /\ ~ValidTime(batch[i]._time)) => writes = <<>>
             /\ IF \A i \in 1..Len(batch) : lines[i].err = ""
                THEN /\ wcall'.err = ""
                     /\ Len(writes) = 1
                     /\ writes[1].bucket = "my-bucket"
                     /\ writes[1].org = "my-org"
                     /\ writes[1].record = Join("\n", [i \in 1..Len(batch) |-> lines[i].val])
                ELSE /\ wcall'.err # ""
                     /\ writes = <<>> ]_vars

\* a batch of two written as one record, then a batch whose second measurement
\* has the timestamp 5: the writer has received the first batch only
C11_FailedBatchNothingSent ==
    /\ wcall.err = "ValueError"
    /\ "items" \in DOMAIN wcall.measurements
    /\ wcall.measurements.t = "list"
    /\ Len(wcall.measurements.items) = 2
    /\ EncodedLine[wcall.measurements.items[1]].err = ""
    /\ wcall.measurements.items[2]._time = PyInt(5)
    /\ SelectSeq(sent, LAMBDA c : c.op = "write")
         = << [op |-> "write", arg |-> "", bucket |-> "my-bucket", org |-> "my-org",
               record |-> "name,host=h1 a=1 1625659548000000000\ncpu a=1,c=\"s\""] >>
    /\ Len(SelectSeq(sent, LAMBDA c : c.op = "write_api")) = 2

=============================================================================
